---------------------------- MODULE Spec2Model ----------------------------
(***************************************************************************)
(* Model of the inline-query pipeline of the Amazon partner bot            *)
(* (src/main.py): per-user sliding-window rate limit, URL validation,      *)
(* short-link expansion with retry behind an LRU cache, ASIN extraction,   *)
(* metrics and the answer sent back; and of the persistent metrics         *)
(* manager (src/metrics.py): its lock, its threads, the canonical and the  *)
(* temporary file, and the JSON text written to and read from them.        *)
(*                                                                         *)
(* Text is modelled character by character: a string is a sequence of      *)
(* one-character strings, and every regular expression of the source is    *)
(* an operator that searches that sequence the way re.search does.         *)
(***************************************************************************)
EXTENDS Integers, Sequences, FiniteSets, TLC

VARIABLES
    now,            \* datetime.now(), in seconds
    user_queries,   \* user_queries: user id -> list of admitted timestamps
    bot_metrics,    \* bot_metrics
    cache,          \* lru_cache of expand_short_url_cached, least recent first
    pc,             \* position of the running handler invocation
    query,          \* update.inline_query.query of the running invocation
    user_id,        \* update.effective_user.id of the running invocation
    url,            \* local `url` of extract_asin
    attempt,        \* tenacity's attempt number inside expand_short_url_with_retry
    results,        \* the list handed to update.inline_query.answer
    admitted,       \* what check_rate_limit returned to this invocation
    \* History kept for the properties only
    metrics0,       \* bot_metrics right after this invocation counted its query
    responses,      \* what each HTTP_SESSION.get of this invocation ended in
    resolved,       \* per short URL: the last value expand_short_url_cached
                    \* returned and the other short URLs resolved since
    admissions,     \* per user: every timestamp check_rate_limit admitted
    \* MetricsManager (src/metrics.py)
    metrics,        \* self.metrics; its 'domains' entry is a reference into heap
    heap,           \* the dict objects that were ever bound to 'domains'
    lock,           \* self.lock: the thread holding it, 0 when free
    file,           \* the lines of self.filepath, or Absent
    tmp,            \* the lines of the .tmp file, or Absent
    tpc,            \* position of each thread inside the manager ("second":
                    \* between the two track calls of a conversion)
    call,           \* the manager method each thread is running
    local,          \* each thread's local value (the operand of +=, start_time)
    snap,           \* what get_metrics last returned to each thread
    \* History kept for the properties only
    saved,          \* in-memory state at the last successful replace
    expected,       \* the calls completed so far, applied one after the other
    lastSave,       \* how the save of the last completed call ended
    calls           \* number of manager calls and restarts so far

bvars == <<now, user_queries, bot_metrics, cache, pc, query, user_id, url,
           attempt, results, admitted, metrics0, responses, resolved, admissions>>

mvars == <<metrics, heap, lock, file, tmp, tpc, call, local, snap, saved,
           expected, lastSave, calls>>

vars == <<bvars, mvars>>

---------------------------------------------------------------------------
(* Bounds of the model *)

NumUsers == 2           \* caller identities
MaxQueries == 2         \* handler invocations explored by Spec after Init
MaxQueriesRate == 12    \* handler invocations explored by SpecRate
MaxQueriesCache == 4    \* handler invocations explored by SpecCache
CacheSize == 2          \* capacity of the LRU cache (lru_cache(maxsize=1000), scaled)
NumThreads == 2         \* threads calling the metrics manager
MaxCalls == 3           \* manager calls and restarts explored by SpecMetrics

Users == 1..NumUsers

---------------------------------------------------------------------------
(* Program constants *)

MAX_QUERIES_PER_MINUTE == 10
WINDOW_SECONDS == 60
MAX_ATTEMPTS == 3
ASIN_LEN == 10

\* Sampled clock readings: two instants of a burst and, seen from them, the
\* ages 59, 60 and 61 seconds.
Instants == {0, 1, WINDOW_SECONDS, WINDOW_SECONDS + 1}

---------------------------------------------------------------------------
(* Characters and strings *)

UpperChars == <<"A","B","C","D","E","F","G","H","I","J","K","L","M","N","O","P","Q","R","S","T","U","V","W","X","Y","Z">>
LowerChars == <<"a","b","c","d","e","f","g","h","i","j","k","l","m","n","o","p","q","r","s","t","u","v","w","x","y","z">>
DigitChars == <<"0","1","2","3","4","5","6","7","8","9">>

Range(s) == {s[i] : i \in 1..Len(s)}

UpperSet == Range(UpperChars)
LowerSet == Range(LowerChars)
DigitSet == Range(DigitChars)

IsUpper(c) == c \in UpperSet
IsLower(c) == c \in LowerSet
IsDigit(c) == c \in DigitSet
IsAlpha(c) == IsUpper(c) \/ IsLower(c)

\* str.lower() on one character
ToLower == [c \in UpperSet |->
               LowerChars[CHOOSE i \in 1..Len(UpperChars) : UpperChars[i] = c]]

Lower(c) == IF c \in UpperSet THEN ToLower[c] ELSE c

LowerStr(s) == [i \in 1..Len(s) |-> Lower(s[i])]

\* the class [A-Z0-9] (and [a-zA-Z0-9]) under re.IGNORECASE
AlnumSet == UpperSet \cup LowerSet \cup DigitSet

IsAlnum(c) == c \in AlnumSet

\* the class [a-z.] under re.IGNORECASE
IsAlphaDot(c) == IsAlpha(c) \/ c = "."

\* the literal lit (given in lower case) matches s at position i, ignoring case
MatchAt(s, i, lit) ==
    /\ i >= 1
    /\ i + Len(lit) - 1 <= Len(s)
    /\ \A k \in 1..Len(lit) : Lower(s[i + k - 1]) = lit[k]

\* re.search(lit, s, re.IGNORECASE) for a literal pattern
SearchLit(s, lit) == \E i \in 1..Len(s) : MatchAt(s, i, lit)

\* `lit in s`
Contains(s, lit) ==
    \E i \in 1..Len(s) :
        /\ i + Len(lit) - 1 <= Len(s)
        /\ \A k \in 1..Len(lit) : s[i + k - 1] = lit[k]

SetMin(S) == CHOOSE x \in S : \A y \in S : x <= y

\* None; Python's truth test treats it like the empty string
None == <<>>

---------------------------------------------------------------------------
(* urllib.parse.urlparse(url).netloc *)

IsSchemeChar(c) == IsAlnum(c) \/ c \in {"+", "-", "."}

ColonPos(s) == IF \E i \in 1..Len(s) : s[i] = ":"
               THEN SetMin({i \in 1..Len(s) : s[i] = ":"})
               ELSE 0

HasScheme(s) ==
    /\ ColonPos(s) > 1
    /\ IsAlpha(s[1])
    /\ \A k \in 1..(ColonPos(s) - 1) : IsSchemeChar(s[k])

AfterScheme(s) == IF HasScheme(s) THEN SubSeq(s, ColonPos(s) + 1, Len(s)) ELSE s

\* urlsplit strips leading spaces before it parses
LStrip(s) ==
    IF \E i \in 1..Len(s) : s[i] # " "
    THEN SubSeq(s, SetMin({i \in 1..Len(s) : s[i] # " "}), Len(s))
    ELSE <<>>

NetlocEnd(r) ==
    IF \E i \in 3..Len(r) : r[i] \in {"/", "?", "#"}
    THEN SetMin({i \in 3..Len(r) : r[i] \in {"/", "?", "#"}}) - 1
    ELSE Len(r)

Netloc(s) ==
    LET r == AfterScheme(LStrip(s))
    IN  IF Len(r) >= 2 /\ r[1] = "/" /\ r[2] = "/"
        THEN SubSeq(r, 3, NetlocEnd(r))
        ELSE <<>>

valid_domains == {
    <<"a","m","a","z","o","n",".","c","o","m">>,
    <<"a","m","a","z","o","n",".","i","t">>,
    <<"a","m","a","z","o","n",".","d","e">>,
    <<"a","m","a","z","o","n",".","f","r">>,
    <<"a","m","a","z","o","n",".","e","s">>,
    <<"a","m","a","z","o","n",".","c","o",".","u","k">>,
    <<"a","m","z","n",".","t","o">>,
    <<"a","m","z","n",".","e","u">>,
    <<"a",".","c","o">>,
    <<"a","m","z","n",".","c","o","m">> }

is_valid_amazon_url(u) ==
    \E d \in valid_domains : Contains(LowerStr(Netloc(u)), d)

---------------------------------------------------------------------------
(* extract_asin: the short-link test and the ASIN patterns *)

\* r'amzn\.(?:eu|to|com|mx)/[a-zA-Z0-9]+' or r'a\.co/[a-zA-Z0-9]+'
ShortTlds == { <<"e","u">>, <<"t","o">>, <<"c","o","m">>, <<"m","x">> }

is_short(u) ==
    \/ \E i \in 1..Len(u) : \E t \in ShortTlds :
          /\ MatchAt(u, i, <<"a","m","z","n",".">>)
          /\ MatchAt(u, i + 5, t)
          /\ MatchAt(u, i + 5 + Len(t), <<"/">>)
          /\ i + 6 + Len(t) <= Len(u)
          /\ IsAlnum(u[i + 6 + Len(t)])
    \/ \E i \in 1..Len(u) :
          /\ MatchAt(u, i, <<"a",".","c","o","/">>)
          /\ i + 5 <= Len(u)
          /\ IsAlnum(u[i + 5])

\* ([A-Z0-9]{10}) matches at position g
IdAt(u, g) ==
    /\ g >= 1
    /\ g + ASIN_LEN - 1 <= Len(u)
    /\ \A k \in 0..(ASIN_LEN - 1) : IsAlnum(u[g + k])

\* Matches of r'<lit>([A-Z0-9]{10})' as pairs <<start of match, start of group>>
LitIdMatches(u, lit) ==
    { <<i, i + Len(lit)>> : i \in {j \in 1..Len(u) :
                                     MatchAt(u, j, lit) /\ IdAt(u, j + Len(lit))} }

\* Matches of r'amazon\.[a-z.]+/([A-Z0-9]{10})': the run of [a-z.] after
\* "amazon." ends at position e and is followed by "/" and the identifier
HostIdMatches(u) ==
    { <<p[1], p[2] + 2>> : p \in
        { p \in {i \in 1..Len(u) : MatchAt(u, i, <<"a","m","a","z","o","n",".">>)}
                  \X (1..Len(u)) :
            /\ p[2] >= p[1] + 7
            /\ \A k \in (p[1] + 7)..p[2] : IsAlphaDot(u[k])
            /\ MatchAt(u, p[2] + 1, <<"/">>)
            /\ IdAt(u, p[2] + 2) } }

\* The ordered list `patterns`: the matches of pattern n
PatternMatches(u, n) ==
    CASE n = 1 -> LitIdMatches(u, <<"/","d","p","/">>)
      [] n = 2 -> LitIdMatches(u, <<"/","g","p","/","p","r","o","d","u","c","t","/">>)
      [] n = 3 -> LitIdMatches(u, <<"/","p","r","o","d","u","c","t","/">>)
      [] n = 4 -> HostIdMatches(u)
                  \cup LitIdMatches(u, <<"a","m","z","n",".","c","o","m","/">>)

NumPatterns == 4

\* match.group(1) of re.search: the leftmost match of the pattern
Group1(u, n) ==
    LET ms == PatternMatches(u, n)
        m  == CHOOSE x \in ms : \A y \in ms : x[1] <= y[1]
    IN  SubSeq(u, m[2], m[2] + ASIN_LEN - 1)

\* The pattern loop of extract_asin: the first pattern that matches decides
MatchAsin(u) ==
    IF \E n \in 1..NumPatterns : PatternMatches(u, n) # {}
    THEN Group1(u, SetMin({n \in 1..NumPatterns : PatternMatches(u, n) # {}}))
    ELSE None

---------------------------------------------------------------------------
(* extract_domain *)

domain_patterns == <<
    <<"a","m","a","z","o","n",".","c","o","m">>,
    <<"a","m","a","z","o","n",".","i","t">>,
    <<"a","m","a","z","o","n",".","d","e">>,
    <<"a","m","a","z","o","n",".","f","r">>,
    <<"a","m","a","z","o","n",".","e","s">>,
    <<"a","m","a","z","o","n",".","c","o",".","u","k">> >>

DEFAULT_DOMAIN == <<"a","m","a","z","o","n",".","i","t">>

Domains == Range(domain_patterns)

extract_domain(u) ==
    IF \E n \in 1..Len(domain_patterns) : SearchLit(u, domain_patterns[n])
    THEN domain_patterns[SetMin({n \in 1..Len(domain_patterns) :
                                    SearchLit(u, domain_patterns[n])})]
    ELSE DEFAULT_DOMAIN

---------------------------------------------------------------------------
(* create_affiliate_link *)

\* keyring_get('Partner'): the partner tag, fixed at startup
PartnerTag == <<"t","a","g","-","2","1">>

create_affiliate_link(asin, domain) ==
    <<"h","t","t","p","s",":","/","/","w","w","w",".">> \o domain
        \o <<"/","d","p","/">> \o asin \o <<"?","t","a","g","=">> \o PartnerTag

---------------------------------------------------------------------------
(* The inputs explored *)

Q_empty  == <<>>
Q_text   == <<"n","o","t"," ","a"," ","u","r","l">>
Q_dp     == <<"h","t","t","p",":","/","/","a","m","a","z","o","n",".","i","t","/","d","p","/","B","0","8","N","5","W","R","W","N","W">>
Q_help   == <<"h","t","t","p",":","/","/","a","m","a","z","o","n",".","d","e","/","g","p","/","h","e","l","p">>
Q_short1 == <<"h","t","t","p",":","/","/","a","m","z","n",".","t","o","/","3","a","b","c">>
Q_short2 == <<"h","t","t","p",":","/","/","a",".","c","o","/","d","1">>
Q_short3 == <<"h","t","t","p",":","/","/","a","m","z","n",".","c","o","m","/","B","0","8","N","5","W","R","W","N","W">>
Q_bare   == <<"a","m","z","n",".","t","o","/","3","a","b","c">>
Q_lower  == <<"h","t","t","p",":","/","/","a","m","a","z","o","n",".","i","t","/","d","p","/","b","0","8","n","5","w","r","w","n","w">>

Queries == {Q_empty, Q_text, Q_dp, Q_help, Q_short1, Q_short2, Q_short3, Q_bare,
            Q_lower}

\* The queries of the rate-limit specification: none gets past the URL validation
RateQueries == {Q_empty, Q_text}

\* The callers of the rate-limit specification: one, and another to interfere
RateUsers == {1, 2}

\* Where a short link may redirect to: a product page, or a page without ASIN
F_product == <<"h","t","t","p",":","/","/","a","m","a","z","o","n",".","d","e","/","d","p","/","B","0","0","0","0","0","0","0","0","1">>
F_landing == <<"h","t","t","p",":","/","/","a","m","a","z","o","n",".","i","t","/">>

FinalUrls == {F_product, F_landing}

ShortQueries == {q \in Queries : is_short(q)}

\* What one HTTP_SESSION.get(short_url, allow_redirects=True) can end in: a
\* response with a status and a final URL, or an exception
Responses ==
    [exc : {"none"}, status : {200}, url : FinalUrls]
    \cup [exc : {"none"}, status : {204, 404}, url : {F_landing}]
    \cup [exc : {"ConnectionError", "Timeout", "ValueError"}, status : {0}, url : {None}]

\* The responses of the pipeline specification: a product page, a page
\* without ASIN, a timeout
PipelineResponses ==
    {r \in Responses : (r.exc = "none" /\ r.status = 200) \/ r.exc = "Timeout"}

---------------------------------------------------------------------------
(* track_metric *)

CounterNames == {"total_queries", "successful_conversions",
                 "failed_extractions", "rate_limited"}

\* Variant: the Counter branch is taken for every metric, so a plain counter
\* is not incremented
track_metric_counter_only(m, metric_name, value) ==
    IF metric_name = "domains"
    THEN [m EXCEPT !.domains[value] = @ + 1]
    ELSE IF metric_name = "total_queries"
         THEN [m EXCEPT ![metric_name] = @ + value]
         ELSE m

track_metric(m, metric_name, value) ==
    IF metric_name = "domains"
    THEN [m EXCEPT !.domains[value] = @ + 1]
    ELSE IF metric_name \in CounterNames
         THEN [m EXCEPT ![metric_name] = @ + value]
         ELSE m

---------------------------------------------------------------------------
(* check_rate_limit *)

\* Variant: no entry is ever dropped from the window
Prune_keep_all(w, t) == w

\* [ts for ts in user_queries[user_id] if ts > cutoff], cutoff = now - 1 minute
Prune(w, t) == SelectSeq(w, LAMBDA ts : ts > t - WINDOW_SECONDS)

\* Variant: the comparison with the maximum is off by one
WindowFull_off_by_one(w) == Len(w) > MAX_QUERIES_PER_MINUTE

\* len(user_queries[user_id]) >= MAX_QUERIES_PER_MINUTE
WindowFull(w) == Len(w) >= MAX_QUERIES_PER_MINUTE

---------------------------------------------------------------------------
(* expand_short_url_with_retry and the lru_cache around expand_short_url_cached *)

\* requests.RequestException and its subclasses (HTTPError is raised by
\* raise_for_status on a 4xx or 5xx response)
RequestExceptions == {"HTTPError", "ConnectionError", "Timeout"}

\* The exception one attempt raises, "none" if it returns
Raised(r) ==
    IF r.exc # "none" THEN r.exc
    ELSE IF r.status >= 400 /\ r.status < 600 THEN "HTTPError"
    ELSE "none"

\* What one attempt returns when it does not raise
Returned(r) == IF r.status = 200 THEN r.url ELSE None

\* Variant: an HTTPError is not retried
ShouldRetry_network_only(e) == e \in {"ConnectionError", "Timeout"}

\* tenacity: retry_if_exception_type((RequestException, Timeout))
ShouldRetry(e) == e \in RequestExceptions

\* Variant: one attempt too many
ShouldStop_late(n) == n > MAX_ATTEMPTS

\* tenacity: stop_after_attempt(3)
ShouldStop(n) == n >= MAX_ATTEMPTS

CacheKeys == {cache[i].key : i \in 1..Len(cache)}

CacheGet(k) == cache[CHOOSE i \in 1..Len(cache) : cache[i].key = k].value

\* Variant: a hit leaves the order alone (first in, first out)
CacheTouch_no_refresh(c, k) == c

\* a hit makes the entry the most recently used
CacheTouch(c, k) ==
    SelectSeq(c, LAMBDA e : e.key # k) \o SelectSeq(c, LAMBDA e : e.key = k)

\* a miss stores the result, dropping the least recently used entry when full
CachePut(c, k, v) ==
    IF Len(c) >= CacheSize
    THEN Append(Tail(c), [key |-> k, value |-> v])
    ELSE Append(c, [key |-> k, value |-> v])

---------------------------------------------------------------------------
(* The result items of inline_query_handler *)

RATE_LIMIT_ID == <<"r","a","t","e","_","l","i","m","i","t">>
ERROR_ID == <<"e","r","r","o","r">>
SOLO_LINK_SUFFIX == <<"_","s","o","l","o","_","l","i","n","k">>

Item(id, title, link) == [id |-> id, title |-> title, link |-> link]

RateLimitResults == << Item(RATE_LIMIT_ID, "bot.error.rate_limit.title", None) >>
UrlErrorResults == << Item(ERROR_ID, "bot.error.url_error.title", None) >>
AsinErrorResults == << Item(ERROR_ID, "bot.error.asin_error.title", None) >>
\* Variant: the "link only" item is missing
SuccessResults_one_item(asin, link) ==
    << Item(asin, "bot.info.partner_link_generated.title", link) >>

SuccessResults(asin, link) ==
    << Item(asin, "bot.info.partner_link_generated.title", link),
       Item(asin \o SOLO_LINK_SUFFIX, "bot.info.only_asin_link.title", link) >>

---------------------------------------------------------------------------
(* MetricsManager: the state of self.metrics and its JSON text *)

Threads == 1..NumThreads

\* The keys of self.metrics that hold a number, in the order of the dict
CounterKeys == <<"total_queries", "successful_conversions",
                 "failed_extractions", "rate_limited">>

\* The domains passed to track('domains', value)
TrackDomains == {domain_patterns[2], domain_patterns[3]}

\* An empty dict object
EmptyDict == [d \in {} |-> 0]

\* d[k] = v of a dict object
DictSet(d, k, v) == [x \in DOMAIN d \cup {k} |-> IF x = k THEN v ELSE d[x]]

\* The sum of the values of a dict object
RECURSIVE DictSum(_)
DictSum(d) ==
    IF DOMAIN d = {} THEN 0
    ELSE LET k == CHOOSE x \in DOMAIN d : TRUE
         IN  d[k] + DictSum([x \in DOMAIN d \ {k} |-> d[x]])

\* str(n) of a non-negative integer, as json.dump writes it
RECURSIVE IntText(_)
IntText(n) ==
    IF n < 10 THEN <<DigitChars[n + 1]>>
    ELSE IntText(n \div 10) \o <<DigitChars[(n % 10) + 1]>>

DigitValue(c) == CHOOSE d \in 0..9 : DigitChars[d + 1] = c

\* int(text) of a run of digits, as json.load reads it
RECURSIVE ParseInt(_)
ParseInt(x) ==
    IF Len(x) = 1 THEN DigitValue(x[1])
    ELSE 10 * ParseInt(SubSeq(x, 1, Len(x) - 1)) + DigitValue(x[Len(x)])

\* datetime.now().isoformat(): the text of the instant t
isoformat(t) == <<"T">> \o IntText(t)

JsonNull == <<"n","u","l","l">>

\* The JSON text of a value that is None or a str
JsonText(v) == IF v = None THEN JsonNull ELSE <<"\"">> \o v \o <<"\"">>

\* The dict literal of __init__ and of reset_metrics, 'domains' bound to the
\* dict object ref
NewMetrics(start_time, ref) ==
    [total_queries |-> 0, successful_conversions |-> 0,
     failed_extractions |-> 0, rate_limited |-> 0,
     domains |-> ref, last_updated |-> None, start_time |-> start_time]

\* The value of a metrics dict: the dict object in place of its reference
Content(m, h) == [m EXCEPT !.domains = h[m.domains]]

\* A file: absent, or the lines of its text. json.dump(indent=2) writes one
\* line for each brace and each member.
Absent == [exists |-> FALSE, lines |-> <<>>]

FileOf(ls) == [exists |-> TRUE, lines |-> ls]

\* One line of JSON text: its indentation level, the member's key (key for
\* a member of the metrics dict, dkey for a member of 'domains') and the text
\* after the key
Line(ind, key, dkey, text) == [ind |-> ind, key |-> key, dkey |-> dkey, text |-> text]

DomainLines(d) ==
    IF DOMAIN d = {}
    THEN << Line(1, "domains", <<>>, <<"{","}">>) >>
    ELSE LET ks == SelectSeq(domain_patterns, LAMBDA k : k \in DOMAIN d)
         IN  << Line(1, "domains", <<>>, <<"{">>) >>
             \o [i \in 1..Len(ks) |-> Line(2, "", ks[i], IntText(d[ks[i]]))]
             \o << Line(1, "", <<>>, <<"}">>) >>

\* json.dump(self.metrics, f, indent=2): the lines of the value c
json_dump(c) ==
    << Line(0, "", <<>>, <<"{">>) >>
    \o [i \in 1..Len(CounterKeys) |->
           Line(1, CounterKeys[i], <<>>, IntText(c[CounterKeys[i]]))]
    \o DomainLines(c.domains)
    \o << Line(1, "last_updated", <<>>, JsonText(c.last_updated)),
          Line(1, "start_time", <<>>, JsonText(c.start_time)),
          Line(0, "", <<>>, <<"}">>) >>

\* The text is one complete JSON object
WellFormed(ls) ==
    /\ Len(ls) >= 2
    /\ ls[1].ind = 0 /\ ls[1].text = <<"{">>
    /\ ls[Len(ls)].ind = 0 /\ ls[Len(ls)].text = <<"}">>
    /\ \A i \in 2..(Len(ls) - 1) :
          /\ ls[i].ind \in {1, 2}
          /\ (ls[i].ind = 1 /\ ls[i].text = <<"{">>)
                => \E j \in (i + 1)..(Len(ls) - 1) :
                       ls[j].ind = 1 /\ ls[j].text = <<"}">>
          /\ ls[i].ind = 2
                => \E j \in 2..(i - 1) : ls[j].ind = 1 /\ ls[j].text = <<"{">>

\* The members of the nested object that opens on line i
ParseDict(ls, i) ==
    IF ls[i].text = <<"{","}">> THEN EmptyDict
    ELSE LET j == SetMin({k \in (i + 1)..Len(ls) : ls[k].ind = 1})
             entries == (i + 1)..(j - 1)
         IN  [d \in {ls[k].dkey : k \in entries} |->
                 ParseInt(ls[CHOOSE k \in entries : ls[k].dkey = d].text)]

\* The value on line i: null, a string, an object or a number
ParseValue(ls, i) ==
    LET x == ls[i].text
    IN  IF x = JsonNull THEN None
        ELSE IF x[1] = "\"" THEN SubSeq(x, 2, Len(x) - 1)
        ELSE IF x[1] = "{" THEN ParseDict(ls, i)
        ELSE ParseInt(x)

\* json.load(f): the dict read, or the JSONDecodeError of a text that is not
\* one complete object
json_load(f) ==
    IF WellFormed(f.lines)
    THEN LET ls == f.lines
             members == {i \in 2..(Len(ls) - 1) : ls[i].ind = 1 /\ ls[i].key # ""}
         IN  [ok |-> TRUE,
              value |-> [k \in {ls[i].key : i \in members} |->
                            ParseValue(ls, CHOOSE i \in members : ls[i].key = k)]]
    ELSE [ok |-> FALSE, value |-> EmptyDict]

\* Variant: the defaults win for start_time
update_keep_start_time(m, loaded, ref) ==
    [k \in DOMAIN m \cup DOMAIN loaded |->
        IF k \in DOMAIN loaded /\ k # "start_time"
        THEN IF k = "domains" THEN ref ELSE loaded[k]
        ELSE m[k]]

\* self.metrics.update(loaded), the loaded 'domains' being the dict object ref
update(m, loaded, ref) ==
    [k \in DOMAIN m \cup DOMAIN loaded |->
        IF k \in DOMAIN loaded
        THEN IF k = "domains" THEN ref ELSE loaded[k]
        ELSE m[k]]

\* __init__ at instant t with the canonical file f: the defaults, and over
\* them what _load_metrics reads when the file exists and can be read
LoadedMetrics(t, f) ==
    LET ld == json_load(f)
    IN  IF f.exists /\ ld.ok
        THEN update(NewMetrics(isoformat(t), 1), ld.value, 2)
        ELSE NewMetrics(isoformat(t), 1)

LoadedHeap(f) ==
    LET ld == json_load(f)
    IN  IF f.exists /\ ld.ok /\ "domains" \in DOMAIN ld.value
        THEN << EmptyDict, ld.value["domains"] >>
        ELSE << EmptyDict >>

\* What the properties compare: the counters and the histogram of a value
Counts(c) ==
    [total_queries |-> c.total_queries,
     successful_conversions |-> c.successful_conversions,
     failed_extractions |-> c.failed_extractions,
     rate_limited |-> c.rate_limited,
     domains |-> c.domains]

\* The calls a thread makes, which are those of the handler: one track for
\* a query, a failed extraction or a rate-limited caller, and for a conversion
\* track('domains', domain) followed by track('successful_conversions')
TrackCalls ==
    [op : {"track"}, name : {"total_queries", "failed_extractions", "rate_limited"},
     value : {1}, domain : {None}]
    \cup [op : {"track"}, name : {"domains"}, value : {1}, domain : TrackDomains]

SecondCall ==
    [op |-> "track", name |-> "successful_conversions", value |-> 1, domain |-> None]

Calls ==
    TrackCalls
    \cup [op : {"reset_metrics", "get_metrics"}, name : {""}, value : {0}, domain : {None}]

NoCall == [op |-> "", name |-> "", value |-> 0, domain |-> None]

\* The effect of one completed call on the counters and the histogram
Apply(e, c) ==
    IF c.op = "reset_metrics"
    THEN [[k \in DOMAIN e |-> 0] EXCEPT !.domains = EmptyDict]
    ELSE IF c.op = "track"
    THEN IF c.name = "domains"
         THEN [e EXCEPT !.domains =
                  DictSet(@, c.domain,
                          (IF c.domain \in DOMAIN @ THEN @[c.domain] ELSE 0) + 1)]
         ELSE [e EXCEPT ![c.name] = @ + c.value]
    ELSE e

\* No value: a thread that has not called get_metrics, a file never saved
NoSnap == [taken |-> FALSE, m |-> NewMetrics(None, 1)]

\* The manager right after MetricsManager() at instant 0 with no file
ManagerFresh ==
    /\ metrics = NewMetrics(isoformat(0), 1)
    /\ heap = << EmptyDict >>
    /\ lock = 0
    /\ file = Absent
    /\ tmp = Absent
    /\ tpc = [t \in Threads |-> "idle"]
    /\ call = [t \in Threads |-> NoCall]
    /\ local = [t \in Threads |-> 0]
    /\ snap = [t \in Threads |-> NoSnap]
    /\ saved = NoSnap
    /\ expected = Counts(Content(metrics, heap))
    /\ lastSave = "none"
    /\ calls = 0

---------------------------------------------------------------------------
(* State after construction *)

ZeroMetrics ==
    [total_queries |-> 0, successful_conversions |-> 0,
     failed_extractions |-> 0, rate_limited |-> 0,
     domains |-> [d \in Domains |-> 0]]

NeverResolved == [q \in ShortQueries |-> [seen |-> FALSE, value |-> None, since |-> {}]]

\* expand_short_url_cached(k) has just returned v
NoteResolved(res, k, v) ==
    [q \in ShortQueries |->
        IF q = k THEN [seen |-> TRUE, value |-> v, since |-> {}]
        ELSE [res[q] EXCEPT !.since = @ \cup {k}]]

\* The module-level state of main.py when the bot starts
Fresh ==
    /\ now = 0
    /\ user_queries = [u \in Users |-> <<>>]
    /\ bot_metrics = ZeroMetrics
    /\ cache = <<>>
    /\ pc = "idle"
    /\ query = <<>>
    /\ user_id = 1
    /\ url = None
    /\ attempt = 0
    /\ results = <<>>
    /\ admitted = "none"
    /\ metrics0 = ZeroMetrics
    /\ responses = <<>>
    /\ resolved = NeverResolved
    /\ admissions = [u \in Users |-> <<>>]
    /\ ManagerFresh

\* The state right after caller 1 has sent MAX_QUERIES_PER_MINUTE queries that
\* are no Amazon URL (Q_text) at instant 0, the last answer having returned
AfterBurst ==
    /\ now = 0
    /\ user_queries = [u \in Users |->
                          IF u = 1 THEN [i \in 1..MAX_QUERIES_PER_MINUTE |-> 0]
                          ELSE <<>>]
    /\ bot_metrics = [ZeroMetrics EXCEPT !.total_queries = MAX_QUERIES_PER_MINUTE]
    /\ cache = <<>>
    /\ pc = "done"
    /\ query = Q_text
    /\ user_id = 1
    /\ url = None
    /\ attempt = 0
    /\ results = UrlErrorResults
    /\ admitted = "admitted"
    /\ metrics0 = bot_metrics
    /\ responses = <<>>
    /\ resolved = NeverResolved
    /\ admissions = user_queries
    /\ ManagerFresh

---------------------------------------------------------------------------
(* The clock *)

Tick(t) ==
    /\ t > now
    /\ UNCHANGED mvars
    /\ now' = t
    /\ UNCHANGED <<user_queries, bot_metrics, cache, pc, query, user_id, url,
                   attempt, results, admitted, metrics0, responses, resolved,
                   admissions>>

---------------------------------------------------------------------------
(* inline_query_handler, one action per stretch of code *)

\* The handler is a coroutine on one event loop: it runs without interruption
\* up to `await update.inline_query.answer(...)`, so a new invocation starts
\* only when no other is between its first line and its answer.
Receive(u, q) ==
    /\ pc \in {"idle", "answer", "done", "raised"}
    /\ UNCHANGED mvars
    /\ query' = q
    /\ user_id' = u
    /\ bot_metrics' = track_metric(bot_metrics, "total_queries", 1)
    /\ pc' = IF q = <<>> THEN "done" ELSE "rate_check"
    /\ url' = None
    /\ attempt' = 0
    /\ results' = <<>>
    /\ admitted' = "none"
    /\ metrics0' = bot_metrics'
    /\ responses' = <<>>
    /\ UNCHANGED <<now, user_queries, cache, resolved, admissions>>

\* `if not await check_rate_limit(user_id)` and its branch
RateCheck ==
    /\ pc = "rate_check"
    /\ UNCHANGED mvars
    /\ LET w == Prune(user_queries[user_id], now)
       IN  IF WindowFull(w)
           THEN /\ user_queries' = [user_queries EXCEPT ![user_id] = w]
                /\ bot_metrics' = track_metric(bot_metrics, "rate_limited", 1)
                /\ admitted' = "denied"
                /\ results' = RateLimitResults
                /\ pc' = "answer"
                /\ UNCHANGED admissions
           ELSE /\ user_queries' = [user_queries EXCEPT ![user_id] = Append(w, now)]
                /\ admissions' = [admissions EXCEPT ![user_id] = Append(@, now)]
                /\ admitted' = "admitted"
                /\ pc' = "url_validate"
                /\ UNCHANGED <<bot_metrics, results>>
    /\ UNCHANGED <<now, cache, query, user_id, url, attempt, metrics0, responses,
                   resolved>>

\* Variant: the validation is skipped
UrlValidate_skipped ==
    /\ pc = "url_validate"
    /\ UNCHANGED mvars
    /\ pc' = "extract"
    /\ UNCHANGED <<now, user_queries, bot_metrics, cache, query, user_id, url,
                   attempt, results, admitted, metrics0, responses, resolved,
                   admissions>>

\* Variant: a query that is no Amazon URL gives its timestamp back
UrlValidate_refund ==
    /\ pc = "url_validate"
    /\ UNCHANGED mvars
    /\ IF is_valid_amazon_url(query)
       THEN pc' = "extract" /\ UNCHANGED <<results, user_queries>>
       ELSE /\ pc' = "answer"
            /\ results' = UrlErrorResults
            /\ user_queries' = [user_queries EXCEPT ![user_id] =
                                    SubSeq(@, 1, Len(@) - 1)]
    /\ UNCHANGED <<now, bot_metrics, cache, query, user_id, url,
                   attempt, admitted, metrics0, responses, resolved, admissions>>

\* `if not is_valid_amazon_url(query)` and its branch
UrlValidate ==
    /\ pc = "url_validate"
    /\ UNCHANGED mvars
    /\ IF is_valid_amazon_url(query)
       THEN pc' = "extract" /\ UNCHANGED results
       ELSE pc' = "answer" /\ results' = UrlErrorResults
    /\ UNCHANGED <<now, user_queries, bot_metrics, cache, query, user_id, url,
                   attempt, admitted, metrics0, responses, resolved, admissions>>

\* extract_asin up to the call of expand_short_url_cached: a URL that is not
\* short, or a cache hit, goes on to the patterns; a miss starts the attempts
Extract ==
    /\ pc = "extract"
    /\ UNCHANGED mvars
    /\ IF ~is_short(query)
       THEN /\ url' = query
            /\ pc' = "match"
            /\ UNCHANGED <<cache, attempt, resolved>>
       ELSE IF query \in CacheKeys
       THEN /\ url' = IF CacheGet(query) # None THEN CacheGet(query) ELSE query
            /\ cache' = CacheTouch(cache, query)
            /\ resolved' = NoteResolved(resolved, query, CacheGet(query))
            /\ pc' = "match"
            /\ UNCHANGED attempt
       ELSE /\ attempt' = 1
            /\ pc' = "expand"
            /\ UNCHANGED <<url, cache, resolved>>
    /\ UNCHANGED <<now, user_queries, bot_metrics, query, user_id, results,
                   admitted, metrics0, responses, admissions>>

\* Variant: `url = expanded_url` without the test of expanded_url
Expanded_no_fallback(v) ==
    /\ cache' = CachePut(cache, query, v)
    /\ resolved' = NoteResolved(resolved, query, v)
    /\ url' = v
    /\ pc' = "match"
    /\ UNCHANGED attempt

\* expand_short_url_cached returns v on a miss: the value is stored and
\* extract_asin continues with the expanded URL if there is one
Expanded(v) ==
    /\ cache' = CachePut(cache, query, v)
    /\ resolved' = NoteResolved(resolved, query, v)
    /\ url' = IF v # None THEN v ELSE query
    /\ pc' = "match"
    /\ UNCHANGED attempt

\* One attempt of expand_short_url_with_retry with response r: it returns, or
\* raises and is retried, or raises for good and expand_short_url_cached
\* turns the exception into None
Attempt(r) ==
    /\ pc = "expand"
    /\ UNCHANGED mvars
    /\ responses' = Append(responses, r)
    /\ IF Raised(r) = "none"
       THEN Expanded(Returned(r))
       ELSE IF ShouldRetry(Raised(r)) /\ ~ShouldStop(attempt)
       THEN /\ attempt' = attempt + 1
            /\ UNCHANGED <<cache, resolved, url, pc>>
       ELSE Expanded(None)
    /\ UNCHANGED <<now, user_queries, bot_metrics, query, user_id, results,
                   admitted, metrics0, admissions>>

\* The pattern loop of extract_asin and the rest of the handler up to the answer
Match ==
    /\ pc = "match"
    /\ UNCHANGED mvars
    /\ LET asin == MatchAsin(url)
           domain == extract_domain(query)
       IN  IF asin = None
           THEN /\ bot_metrics' = track_metric(bot_metrics, "failed_extractions", 1)
                /\ results' = AsinErrorResults
           ELSE /\ bot_metrics' = track_metric(track_metric(bot_metrics, "domains", domain),
                                               "successful_conversions", 1)
                /\ results' = SuccessResults(asin, create_affiliate_link(asin, domain))
    /\ pc' = "answer"
    /\ UNCHANGED <<now, user_queries, cache, query, user_id, url, attempt,
                   admitted, metrics0, responses, resolved, admissions>>

\* keyring_get('Partner') raises inside create_affiliate_link: the success
\* path has recorded its metrics, and the exception leaves
\* inline_query_handler, which has no try, before any answer is made
KeyringFault ==
    /\ pc = "match"
    /\ UNCHANGED mvars
    /\ MatchAsin(url) # None
    /\ bot_metrics' = track_metric(track_metric(bot_metrics, "domains",
                                                extract_domain(query)),
                                   "successful_conversions", 1)
    /\ pc' = "raised"
    /\ UNCHANGED <<now, user_queries, cache, query, user_id, url, attempt,
                   results, admitted, metrics0, responses, resolved, admissions>>

\* `await update.inline_query.answer(...)` returns and the handler ends
AnswerReturn ==
    /\ pc = "answer"
    /\ UNCHANGED mvars
    /\ pc' = "done"
    /\ UNCHANGED <<now, user_queries, bot_metrics, cache, query, user_id, url,
                   attempt, results, admitted, metrics0, responses, resolved,
                   admissions>>

---------------------------------------------------------------------------
(* MetricsManager, one action per stretch of code of a thread *)

\* A thread calls track, reset_metrics or get_metrics; a thread whose
\* track('domains', domain) has returned calls track('successful_conversions')
ManagerCall(t, c) ==
    /\ \/ tpc[t] = "idle" /\ calls < MaxCalls /\ c \in Calls
       \/ tpc[t] = "second" /\ c = SecondCall
    /\ call' = [call EXCEPT ![t] = c]
    /\ tpc' = [tpc EXCEPT ![t] = "acquire"]
    /\ calls' = calls + 1
    /\ UNCHANGED <<metrics, heap, lock, file, tmp, local, snap, saved, expected,
                   lastSave>>
    /\ UNCHANGED bvars

\* Variant: a lock that never makes a thread wait
LockFree_always(l) == TRUE

\* threading.Lock: it can be taken when no thread holds it
LockFree(l) == l = 0

\* `with self.lock:` is entered
Acquire(t) ==
    /\ tpc[t] = "acquire"
    /\ LockFree(lock)
    /\ lock' = t
    /\ tpc' = [tpc EXCEPT ![t] =
                  CASE call[t].op = "track" -> "read"
                    [] call[t].op = "reset_metrics" -> "reset"
                    [] call[t].op = "get_metrics" -> "copy"]
    /\ UNCHANGED <<metrics, heap, file, tmp, call, local, snap, saved, expected,
                   lastSave, calls>>
    /\ UNCHANGED bvars

\* track: the left operand of `+= value` is read; a domain that is not in the
\* histogram is entered with 0 first
TrackRead(t) ==
    /\ tpc[t] = "read"
    /\ IF call[t].name = "domains"
       THEN LET d == heap[metrics.domains]
                k == call[t].domain
            IN  /\ heap' = [heap EXCEPT ![metrics.domains] =
                               IF k \in DOMAIN d THEN d ELSE DictSet(d, k, 0)]
                /\ local' = [local EXCEPT ![t] = IF k \in DOMAIN d THEN d[k] ELSE 0]
       ELSE /\ local' = [local EXCEPT ![t] = metrics[call[t].name]]
            /\ UNCHANGED heap
    /\ tpc' = [tpc EXCEPT ![t] = "write"]
    /\ UNCHANGED <<metrics, lock, file, tmp, call, snap, saved, expected,
                   lastSave, calls>>
    /\ UNCHANGED bvars

\* track: the sum is stored
TrackWrite(t) ==
    /\ tpc[t] = "write"
    /\ IF call[t].name = "domains"
       THEN /\ heap' = [heap EXCEPT ![metrics.domains] =
                           DictSet(@, call[t].domain, local[t] + 1)]
            /\ UNCHANGED metrics
       ELSE /\ metrics' = [metrics EXCEPT ![call[t].name] = local[t] + call[t].value]
            /\ UNCHANGED heap
    /\ tpc' = [tpc EXCEPT ![t] = "open"]
    /\ UNCHANGED <<lock, file, tmp, call, local, snap, saved, expected,
                   lastSave, calls>>
    /\ UNCHANGED bvars

\* Variant: the clock is read again
reset_value_now(start_time, t, ref) == NewMetrics(isoformat(t), ref)

\* The dict reset_metrics builds at instant t: `start_time or now`
reset_value(start_time, t, ref) ==
    NewMetrics(IF start_time # None THEN start_time ELSE isoformat(t), ref)

\* reset_metrics: start_time is read and self.metrics is bound to a new dict
\* with a new, empty 'domains'
ResetBody(t) ==
    /\ tpc[t] = "reset"
    /\ local' = [local EXCEPT ![t] = metrics.start_time]
    /\ heap' = Append(heap, EmptyDict)
    /\ metrics' = reset_value(metrics.start_time, now, Len(heap) + 1)
    /\ tpc' = [tpc EXCEPT ![t] = "open"]
    /\ UNCHANGED <<lock, file, tmp, call, snap, saved, expected, lastSave, calls>>
    /\ UNCHANGED bvars

\* get_metrics: self.metrics.copy(), a new dict with the same values, the
\* reference to the 'domains' dict object among them
Copy(t) ==
    /\ tpc[t] = "copy"
    /\ snap' = [snap EXCEPT ![t] = [taken |-> TRUE, m |-> metrics]]
    /\ tpc' = [tpc EXCEPT ![t] = "release"]
    /\ UNCHANGED <<metrics, heap, lock, file, tmp, call, local, saved, expected,
                   lastSave, calls>>
    /\ UNCHANGED bvars

\* Variant: the exception of a failed save leaves the method
save_error_pc_raise(op) == "raised"

\* `except Exception` of _save_metrics: the error is logged and the method
\* goes on to the end of its `with self.lock:` block
save_error_pc(op) == "release"

\* Variant: the temporary file is moved into place whatever happened
after_dump_error_replace(f, t) == <<t, Absent>>

\* The canonical and the temporary file after json.dump raised
after_dump_error(f, t) == <<f, t>>

\* _save_metrics: last_updated is set and the temporary file is opened for
\* writing, which truncates it, or fails
SaveOpen(t) ==
    /\ tpc[t] = "open"
    /\ metrics' = [metrics EXCEPT !.last_updated = isoformat(now)]
    /\ \E ok \in BOOLEAN :
          IF ok
          THEN /\ tmp' = FileOf(<<>>)
               /\ tpc' = [tpc EXCEPT ![t] = "dump"]
               /\ UNCHANGED lastSave
          ELSE /\ tpc' = [tpc EXCEPT ![t] = save_error_pc(call[t].op)]
               /\ lastSave' = "failed"
               /\ UNCHANGED tmp
    /\ UNCHANGED <<heap, lock, file, call, local, snap, saved, expected, calls>>
    /\ UNCHANGED bvars

\* _save_metrics: json.dump writes the next line of the text, or fails
SaveDump(t) ==
    /\ tpc[t] = "dump"
    /\ LET ls == json_dump(Content(metrics, heap))
           n  == Len(tmp.lines)
       IN  \E ok \in BOOLEAN :
              IF ok /\ n < Len(ls)
              THEN /\ tmp' = FileOf(Append(tmp.lines, ls[n + 1]))
                   /\ tpc' = [tpc EXCEPT ![t] =
                                 IF n + 1 = Len(ls) THEN "replace" ELSE "dump"]
                   /\ UNCHANGED <<file, lastSave>>
              ELSE /\ file' = after_dump_error(file, tmp)[1]
                   /\ tmp' = after_dump_error(file, tmp)[2]
                   /\ tpc' = [tpc EXCEPT ![t] = save_error_pc(call[t].op)]
                   /\ lastSave' = "failed"
    /\ UNCHANGED <<metrics, heap, lock, call, local, snap, saved, expected, calls>>
    /\ UNCHANGED bvars

\* _save_metrics: temp_file.replace(self.filepath) renames the temporary file
\* over the canonical one in one step, or fails
SaveReplace(t) ==
    /\ tpc[t] = "replace"
    /\ \E ok \in BOOLEAN :
          IF ok
          THEN /\ file' = tmp
               /\ tmp' = Absent
               /\ saved' = [taken |-> TRUE, m |-> Content(metrics, heap)]
               /\ lastSave' = "ok"
               /\ tpc' = [tpc EXCEPT ![t] = "release"]
          ELSE /\ tpc' = [tpc EXCEPT ![t] = save_error_pc(call[t].op)]
               /\ lastSave' = "failed"
               /\ UNCHANGED <<file, tmp, saved>>
    /\ UNCHANGED <<metrics, heap, lock, call, local, snap, expected, calls>>
    /\ UNCHANGED bvars

\* The `with self.lock:` block is left and the method returns
Release(t) ==
    /\ tpc[t] = "release"
    /\ lock' = 0
    /\ tpc' = [tpc EXCEPT ![t] = IF call[t].name = "domains" THEN "second" ELSE "idle"]
    /\ expected' = Apply(expected, call[t])
    /\ call' = [call EXCEPT ![t] = NoCall]
    /\ local' = [local EXCEPT ![t] = 0]
    /\ UNCHANGED <<metrics, heap, file, tmp, snap, saved, lastSave, calls>>
    /\ UNCHANGED bvars

\* The process dies wherever its threads are and is started again: a new
\* MetricsManager is constructed on the files the old one left
Restart ==
    /\ calls < MaxCalls
    /\ calls' = calls + 1
    /\ metrics' = LoadedMetrics(now, file)
    /\ heap' = LoadedHeap(file)
    /\ lock' = 0
    /\ tpc' = [t \in Threads |-> "idle"]
    /\ call' = [t \in Threads |-> NoCall]
    /\ local' = [t \in Threads |-> 0]
    /\ snap' = [t \in Threads |-> NoSnap]
    /\ expected' = Counts(Content(metrics', heap'))
    /\ lastSave' = "none"
    /\ UNCHANGED <<file, tmp, saved>>
    /\ UNCHANGED bvars

---------------------------------------------------------------------------
(* Specifications *)

\* The whole pipeline, started with caller 1's window full and caller 2's empty
Init == AfterBurst

NewQuery ==
    /\ bot_metrics.total_queries < MAX_QUERIES_PER_MINUTE + MaxQueries
    /\ \E u \in Users : \E q \in Queries : Receive(u, q)

\* Time passes until caller 1's burst is more than a minute old
ClockTick == Tick(WINDOW_SECONDS + 1)

Network == \E r \in PipelineResponses : Attempt(r)

Next ==
    \/ ClockTick
    \/ NewQuery
    \/ RateCheck
    \/ UrlValidate
    \/ Extract
    \/ Network
    \/ Match
    \/ AnswerReturn

Spec == Init /\ [][Next]_vars

\* The rate limiter from the start of the bot, with more invocations and a
\* finer clock
InitRate == Fresh

NewQueryRate ==
    /\ bot_metrics.total_queries < MaxQueriesRate
    /\ \E u \in RateUsers : \E q \in RateQueries : Receive(u, q)

ClockTickRate == \E t \in Instants : Tick(t)

NextRate ==
    \/ ClockTickRate
    \/ NewQueryRate
    \/ RateCheck
    \/ UrlValidate
    \/ AnswerReturn

SpecRate == InitRate /\ [][NextRate]_vars

\* The resolver and its cache from the start of the bot: one caller, short
\* links only, every kind of response
InitCache == Fresh

NewQueryCache ==
    /\ bot_metrics.total_queries < MaxQueriesCache
    /\ \E q \in ShortQueries : Receive(1, q)

NetworkCache == \E r \in Responses : Attempt(r)

NextCache ==
    \/ NewQueryCache
    \/ RateCheck
    \/ UrlValidate
    \/ Extract
    \/ NetworkCache
    \/ Match
    \/ AnswerReturn

SpecCache == InitCache /\ [][NextCache]_vars

\* The pipeline with a partner tag that cannot always be read
InitFault == AfterBurst

NextFault ==
    \/ ClockTick
    \/ NewQuery
    \/ RateCheck
    \/ UrlValidate
    \/ Extract
    \/ Network
    \/ Match
    \/ KeyringFault
    \/ AnswerReturn

SpecFault == InitFault /\ [][NextFault]_vars

\* The metrics manager from its construction: threads calling its methods,
\* saves that fail, and restarts of the process
InitMetrics == Fresh

NewCall == \E t \in Threads : \E c \in Calls \cup {SecondCall} : ManagerCall(t, c)

LockAcquire == \E t \in Threads : Acquire(t)

Track == \E t \in Threads : TrackRead(t) \/ TrackWrite(t)

Reset == \E t \in Threads : ResetBody(t)

GetMetrics == \E t \in Threads : Copy(t)

Save == \E t \in Threads : SaveOpen(t) \/ SaveDump(t) \/ SaveReplace(t)

LockRelease == \E t \in Threads : Release(t)

NextMetrics ==
    \/ ClockTick
    \/ NewCall
    \/ LockAcquire
    \/ Track
    \/ Reset
    \/ GetMetrics
    \/ Save
    \/ LockRelease
    \/ Restart

SpecMetrics == InitMetrics /\ [][NextMetrics]_vars


---------------------------------------------------------------------------
(* Properties of check_rate_limit, checked under SpecRate *)

\* The timestamps of w that lie in the 60 seconds up to and including t
Trailing(w, t) == SelectSeq(w, LAMBDA ts : ts > t - WINDOW_SECONDS /\ ts <= t)

\* C1: whatever the callers do, the admitted calls of one caller whose
\* timestamps lie in the 60 seconds ending at any admitted call number at most
\* MAX_QUERIES_PER_MINUTE, no window ever holds more than
\* MAX_QUERIES_PER_MINUTE entries, and a call is Denied only against a window
\* that holds MAX_QUERIES_PER_MINUTE timestamps of the last 60 seconds.
C1_AtMostMaxPerMinute ==
    /\ \A u \in Users :
          /\ Len(user_queries[u]) <= MAX_QUERIES_PER_MINUTE
          /\ \A i \in 1..Len(admissions[u]) :
                Len(Trailing(admissions[u], admissions[u][i])) <= MAX_QUERIES_PER_MINUTE
    /\ admitted = "denied" =>
          /\ Len(user_queries[user_id]) = MAX_QUERIES_PER_MINUTE
          /\ results = RateLimitResults

\* The eleventh call of a caller within the minute has been denied
C1_Witness ==
    /\ admitted = "denied"
    /\ Len(admissions[user_id]) = MAX_QUERIES_PER_MINUTE
    /\ Len(Trailing(admissions[user_id], now)) = MAX_QUERIES_PER_MINUTE

\* What C2 asks of one step
C2_Step ==
    /\ ( /\ pc = "rate_check"
         /\ pc' # "rate_check"
         /\ user_queries[user_id] # <<>>
         /\ now > Head(user_queries[user_id]) + WINDOW_SECONDS )
       => admitted' = "admitted"
    /\ ( pc = "rate_check" /\ admitted' = "denied" )
       => /\ admissions' = admissions
          /\ \A u \in Users :
                \A i \in 1..Len(user_queries'[u]) :
                    \E j \in 1..Len(user_queries[u]) :
                        user_queries'[u][i] = user_queries[u][j]

\* C2: a rate check made more than 60 seconds after the oldest timestamp the
\* caller's window retains admits the call, and a rate check that denies adds
\* no timestamp to any window.
C2_WindowSlides == [][C2_Step]_vars

\* A caller who filled the window and was denied is admitted 61 seconds after
\* the first call of the burst
C2_Witness ==
    /\ pc = "url_validate"
    /\ admitted = "admitted"
    /\ bot_metrics.rate_limited > 0
    /\ Len(admissions[user_id]) = MAX_QUERIES_PER_MINUTE + 1
    /\ admissions[user_id][1] = 0
    /\ now = WINDOW_SECONDS + 1
    /\ user_queries[user_id] = <<now>>

\* The state the pipeline specification starts in is one the bot reaches
BurstReached ==
    /\ user_queries = [u \in Users |->
                          IF u = 1 THEN [i \in 1..MAX_QUERIES_PER_MINUTE |-> 0]
                          ELSE <<>>]
    /\ bot_metrics = [ZeroMetrics EXCEPT !.total_queries = MAX_QUERIES_PER_MINUTE]
    /\ pc = "done" /\ query = Q_text /\ now = 0

---------------------------------------------------------------------------
(* Properties of inline_query_handler, checked under Spec *)

IsHttpError(r) == r.exc = "none" /\ r.status >= 400 /\ r.status < 600
IsNetworkError(r) == r.exc \in {"ConnectionError", "Timeout"}

\* The running invocation has handed its answer over, or has returned
Ended == pc \in {"answer", "done"}

\* What C3 asks of one step
C3_Step ==
    /\ Len(responses') > Len(responses) =>
          /\ admitted = "admitted"
          /\ is_valid_amazon_url(query)
          /\ is_short(query)
          /\ query \notin CacheKeys
    /\ (Len(responses') > Len(responses) \/ cache' # cache) =>
          /\ admitted = "admitted"
          /\ is_valid_amazon_url(query)
          /\ is_short(query)
    /\ pc' = "url_validate" => admitted' = "admitted"
    /\ pc' = "extract" => pc \in {"url_validate", "extract"} /\ is_valid_amazon_url(query')
    /\ pc' = "expand" => pc \in {"extract", "expand"} /\ is_short(query')
    /\ (pc' = "expand" /\ pc = "extract") => query \notin CacheKeys

\* C3: a network request is issued only for a query that was Admitted, passed
\* the URL validation, is short-form and has no cache entry, and these are
\* established in that order; a step of an invocation whose query was Denied,
\* is invalid or is not short-form neither issues a request nor changes the
\* cache.
C3_RequestOnlyAfterChecks == [][C3_Step]_vars

\* After one query was Denied, a short link of an admitted caller is being
\* fetched
C3_Witness ==
    /\ bot_metrics.rate_limited > 0
    /\ pc = "expand"
    /\ Len(responses) > 0

Delta(name) == bot_metrics[name] - metrics0[name]

\* The outcomes this invocation has recorded, its 'total_queries' aside
OutcomesRecorded ==
    Delta("rate_limited") + Delta("failed_extractions") + Delta("successful_conversions")

IsSuccessResults(rs) ==
    /\ Len(rs) = 2
    /\ Len(rs[1].id) = ASIN_LEN
    /\ rs[2].id = rs[1].id \o SOLO_LINK_SUFFIX
    /\ rs[1].title = "bot.info.partner_link_generated.title"
    /\ rs[2].title = "bot.info.only_asin_link.title"

\* The step with which an invocation ends
TerminalStep == Ended' /\ (~Ended \/ metrics0' # metrics0)

\* C4 as stated, for the invocations that reach the rate check: the step that
\* ends one produces one of the four terminal results and the invocation has
\* then recorded exactly one outcome.
C4_Original ==
    [][ (TerminalStep /\ query' # <<>>) =>
          /\ \/ results' \in {RateLimitResults, UrlErrorResults, AsinErrorResults}
             \/ IsSuccessResults(results')
          /\ OutcomesRecorded' = 1 ]_vars

\* C4 as amended: an invocation with a non-empty query ends in exactly one of
\* the four terminal results; RATE_LIMITED_RESULT has added 1 to rate_limited,
\* ASIN_ERROR_RESULT 1 to failed_extractions, SUCCESS_RESULT 1 to
\* successful_conversions and 1 to the query's domain, each and nothing else,
\* and URL_ERROR_RESULT has recorded nothing; an invocation with an empty query
\* ends without a result and records nothing; nothing is recorded before the
\* invocation ends.
C4_OneOutcomePerTerminal ==
    /\ Ended =>
        CASE query = <<>> ->
                results = <<>> /\ bot_metrics = metrics0
          [] query # <<>> /\ results = RateLimitResults ->
                bot_metrics = [metrics0 EXCEPT !.rate_limited = @ + 1]
          [] query # <<>> /\ results = UrlErrorResults ->
                bot_metrics = metrics0
          [] query # <<>> /\ results = AsinErrorResults ->
                bot_metrics = [metrics0 EXCEPT !.failed_extractions = @ + 1]
          [] OTHER ->
                /\ IsSuccessResults(results)
                /\ bot_metrics = [metrics0 EXCEPT
                                    !.successful_conversions = @ + 1,
                                    !.domains[extract_domain(query)] = @ + 1]
    /\ ~Ended => bot_metrics = metrics0

\* An invocation has ended in URL_ERROR_RESULT, another before it was denied
C4_Witness ==
    /\ pc = "answer"
    /\ query = Q_bare
    /\ results = UrlErrorResults
    /\ bot_metrics.rate_limited > 0
    /\ bot_metrics = metrics0

\* The item list the outcome of the invocation calls for
ExpectedShape ==
    IF admitted = "denied"
    THEN Len(results) = 1 /\ results[1].id = RATE_LIMIT_ID
    ELSE IF ~is_valid_amazon_url(query)
    THEN Len(results) = 1 /\ results[1].id = ERROR_ID
    ELSE IF MatchAsin(url) = None
    THEN Len(results) = 1 /\ results[1].id = ERROR_ID
    ELSE /\ Len(results) = 2
         /\ results[1].id = MatchAsin(url)
         /\ results[2].id = MatchAsin(url) \o SOLO_LINK_SUFFIX

\* C5 as stated: every invocation answers, with two items on success, one item
\* with id "rate_limit" when Denied, one item with id "error" for an invalid
\* URL or a failed extraction.
C5_Original ==
    Ended => (results # <<>> /\ ExpectedShape)

\* C5 as amended: every invocation with a non-empty query answers with that
\* list; an invocation with an empty query returns without answering.
C5_AnswerShape ==
    /\ Ended =>
          IF query = <<>> THEN results = <<>> /\ pc = "done"
          ELSE results # <<>> /\ ExpectedShape
    /\ ~Ended => results = <<>>

\* A success has been answered with its two items
C5_Witness ==
    /\ pc = "answer"
    /\ query = Q_dp
    /\ Len(results) = 2
    /\ results[2].id = results[1].id \o SOLO_LINK_SUFFIX

\* C10: when expand_short_url_cached returned None for the short link of an
\* admitted, valid query, the patterns ran on the query text itself, and the
\* invocation ended in ASIN_ERROR_RESULT if they found no identifier in it and
\* in SUCCESS_RESULT for the identifier they found otherwise.
C10_ResolutionFailureNotFatal ==
    ( /\ Ended
      /\ admitted = "admitted"
      /\ is_valid_amazon_url(query)
      /\ is_short(query)
      /\ resolved[query].seen
      /\ resolved[query].value = None )
    => /\ url = query
       /\ results =
            IF MatchAsin(query) = None
            THEN AsinErrorResults
            ELSE SuccessResults(MatchAsin(query),
                    create_affiliate_link(MatchAsin(query), extract_domain(query)))

\* Three timeouts on a short link that carries an ASIN itself: success
C10_Witness ==
    /\ pc = "answer"
    /\ query = Q_short3
    /\ Len(responses) = MAX_ATTEMPTS
    /\ resolved[query].value = None
    /\ IsSuccessResults(results)

---------------------------------------------------------------------------
(* Properties of the resolver and its cache, checked under SpecCache *)

\* The resolution of the running invocation's short link is over
ResolutionOver == pc \in {"match", "answer", "done"} /\ responses # <<>>

\* C6 as stated: once a short URL has been resolved, resolving it again makes
\* no network request and yields the same value, whatever was resolved in
\* between.
C6_Original ==
    [][ ( /\ pc \in {"extract", "expand"}
          /\ is_short(query)
          /\ resolved[query].seen )
        => /\ Len(responses') = Len(responses)
           /\ resolved'[query].value = resolved[query].value ]_vars

\* Fewer than the cache's capacity of other short URLs were resolved since k
StillFresh(k) == resolved[k].seen /\ Cardinality(resolved[k].since) < CacheSize

\* What the amended C6 asks of the step that looks a short link up
C6_Step ==
    ( /\ pc = "extract"
      /\ pc' # "extract"
      /\ is_short(query)
      /\ StillFresh(query) )
    => /\ pc' = "match"
       /\ responses' = <<>>
       /\ resolved'[query].value = resolved[query].value
       /\ url' = IF resolved[query].value # None THEN resolved[query].value ELSE query

\* C6 as amended: as long as fewer distinct other short URLs than the cache
\* holds entries have been resolved since a short URL was last resolved, the
\* cache still holds the value that resolution returned, and resolving the URL
\* again returns that value without a network request.
C6_CacheIdempotence ==
    /\ [](\A k \in ShortQueries :
            StillFresh(k) => (k \in CacheKeys /\ CacheGet(k) = resolved[k].value))
    /\ [][C6_Step]_vars

\* A short link is answered from the cache while another link, resolved
\* after it was first resolved or before, is cached too
C6_Witness ==
    /\ pc = "match"
    /\ responses = <<>>
    /\ is_short(query)
    /\ Len(cache) = CacheSize
    /\ cache[Len(cache)].key = query
    /\ url = F_product

\* C7 as stated: the cache holds an entry only for a resolution that ended in
\* a response with status 200, so no entry holds None.
C7_Original == \A i \in 1..Len(cache) : cache[i].value # None

\* C8: a resolution makes at most MAX_ATTEMPTS requests; only an attempt that
\* raised is followed by another; when every attempt ended in a network or
\* timeout error there were exactly MAX_ATTEMPTS of them and the resolution
\* returned None to extract_asin, which went on with the query text; when the
\* last attempt got a 200 the resolution returned that response's URL.
C8_AtMostThreeAttempts ==
    /\ Len(responses) <= MAX_ATTEMPTS
    /\ pc = "expand" => attempt = Len(responses) + 1 /\ attempt <= MAX_ATTEMPTS
    /\ \A i \in 1..(Len(responses) - 1) : Raised(responses[i]) # "none"
    /\ (ResolutionOver /\ \A i \in 1..Len(responses) : IsNetworkError(responses[i]))
          => /\ Len(responses) = MAX_ATTEMPTS
             /\ resolved[query].value = None
             /\ url = query
    /\ (ResolutionOver /\ Raised(responses[Len(responses)]) = "none")
          => resolved[query].value = Returned(responses[Len(responses)])

\* Three network errors in a row, and extract_asin is going on
C8_Witness ==
    /\ pc = "match"
    /\ Len(responses) = MAX_ATTEMPTS
    /\ \A i \in 1..Len(responses) : IsNetworkError(responses[i])
    /\ url = query

\* C9 as stated: no attempt follows one that obtained a 4xx or 5xx response.
C9_Original ==
    \A i \in 1..(Len(responses) - 1) : ~IsHttpError(responses[i])

\* C9 as amended: a 4xx or 5xx response is retried like a network or timeout
\* error, up to MAX_ATTEMPTS attempts in all; a resolution ends after fewer
\* attempts only on a response with a status below 400 or on an exception that
\* is no RequestException.
C9_HttpErrorsRetried ==
    /\ \A i \in 1..Len(responses) :
          (IsHttpError(responses[i]) /\ i < MAX_ATTEMPTS)
             => (i < Len(responses) \/ (pc = "expand" /\ attempt = i + 1))
    /\ (ResolutionOver /\ Len(responses) < MAX_ATTEMPTS)
          => LET last == responses[Len(responses)]
             IN  \/ (last.exc = "none" /\ last.status < 400)
                 \/ last.exc \notin RequestExceptions \cup {"none"}

\* Three 404 responses in a row, then the resolution has failed
C9_Witness ==
    /\ pc = "match"
    /\ Len(responses) = MAX_ATTEMPTS
    /\ \A i \in 1..Len(responses) : IsHttpError(responses[i])
    /\ resolved[query].value = None

---------------------------------------------------------------------------
(* Properties of the metrics manager, checked under SpecMetrics *)

\* The text of a file is a prefix of a JSON object that stops before its end
Partial(f) == f.exists /\ ~WellFormed(f.lines)

\* C11: at every point of every execution (between any two steps of
\* _save_metrics, after a save that failed, after the process died and was
\* started again, whatever the threads are doing) the canonical file is
\* either absent or holds one complete JSON object, and that object is the
\* in-memory metrics state of the save that put it there.
C11_AtomicPersistence ==
    \/ file = Absent
    \/ /\ saved.taken
       /\ json_load(file).ok
       /\ json_load(file).value = saved.m

\* A process that died while json.dump was writing, after an earlier save had
\* put a canonical file in place, has been started again
C11_Witness ==
    /\ lastSave = "none"
    /\ calls > 0
    /\ file.exists
    /\ Partial(tmp)
    /\ Len(tmp.lines) > 1

\* The step in which a new MetricsManager is constructed
RestartStep == calls' = calls + 1 /\ \A t \in Threads : tpc'[t] = "idle"

\* What C12 asks of one step
C12_Step ==
    RestartStep =>
        IF file.exists
        THEN /\ saved.taken
             /\ Counts(Content(metrics', heap')) = Counts(saved.m)
             /\ metrics'.start_time = saved.m.start_time
        ELSE /\ Content(metrics', heap') = Content(NewMetrics(isoformat(now), 1),
                                                   << EmptyDict >>)

\* C12: a new metrics manager constructed on a file that record operations
\* have saved holds the same four counters, the same domains histogram and the
\* same start_time as the in-memory state that was saved; constructed on a
\* missing file it holds the zero defaults.
C12_RoundTrip == [][C12_Step]_vars

\* A manager constructed later than the first one, on the file saved after
\* one amazon.it domain and one successful conversion were recorded
C12_Witness ==
    /\ lastSave = "none"
    /\ calls > 0
    /\ now > 0
    /\ metrics.start_time = isoformat(0)
    /\ metrics.successful_conversions = 1
    /\ heap[metrics.domains] = DictSet(EmptyDict, domain_patterns[2], 1)

\* The positions of a thread inside `with self.lock:`
Critical == {"read", "write", "reset", "copy", "open", "dump", "replace", "release"}

\* C13: mutation and persistence of one call happen inside one critical
\* section: at most one thread is inside it, and whenever no call is in
\* progress inside it every counter and the histogram are what the completed
\* track and reset calls give when applied one after the other (n completed
\* track(m) calls with no reset have added exactly n to m), and the file the
\* last completed save wrote equals the in-memory state.
C13_NoLostUpdate ==
    /\ Cardinality({t \in Threads : tpc[t] \in Critical}) <= 1
    /\ lock = 0 => Counts(Content(metrics, heap)) = expected
    /\ (lock = 0 /\ lastSave = "ok") =>
          /\ file.exists
          /\ json_load(file).value = Content(metrics, heap)

\* A track of total_queries is writing its file while another thread's track
\* of total_queries waits for the lock, a first one having completed
C13_Witness ==
    \E t \in Threads : \E u \in Threads \ {t} :
        /\ tpc[t] = "dump"
        /\ tpc[u] = "acquire"
        /\ call[t].name = "total_queries"
        /\ call[u].name = "total_queries"
        /\ expected.total_queries = 1

\* The counters are 0 and the histogram is empty in the value c
Cleared(c) ==
    /\ \A i \in 1..Len(CounterKeys) : c[CounterKeys[i]] = 0
    /\ c.domains = EmptyDict

\* What C14 asks of one step: of the step that rebinds self.metrics, and of
\* the step that replaces the canonical file at the end of reset's save
C14_Step ==
    \A t \in Threads :
        /\ (tpc[t] = "reset" /\ tpc'[t] = "open") =>
              /\ Cleared(Content(metrics', heap'))
              /\ metrics'.start_time = metrics.start_time
        /\ (/\ call[t].op = "reset_metrics"
            /\ tpc[t] = "replace" /\ tpc'[t] = "release"
            /\ lastSave' = "ok") =>
              /\ tmp' = Absent
              /\ json_load(file').ok
              /\ Cleared(json_load(file').value)
              /\ json_load(file').value["start_time"] = local[t]
              /\ json_load(file').value = Content(metrics', heap')

\* C14: reset sets the four counters to 0 and domains to empty, leaves
\* start_time unchanged, and its save, when it succeeds, puts the cleared
\* state with that start_time in the canonical file by the write to the
\* temporary file and the replace.
C14_ResetClears == [][C14_Step]_vars

\* A reset called later than the construction, after a query was counted,
\* has replaced the canonical file
C14_Witness ==
    \E t \in Threads :
        /\ call[t].op = "reset_metrics"
        /\ tpc[t] = "release"
        /\ lastSave = "ok"
        /\ now > 0
        /\ expected.total_queries > 0
        /\ metrics.total_queries = 0

\* The step in which the save of thread t fails: open, json.dump or replace
\* raises
FailStep(t) ==
    /\ lastSave' = "failed"
    /\ \/ tpc[t] \in {"open", "dump"} /\ tpc'[t] \notin {"open", "dump", "replace"}
       \/ tpc[t] = "replace" /\ tpc'[t] # "replace"

\* What C15 asks of one step
C15_Step ==
    \A t \in Threads :
        /\ FailStep(t) =>
              /\ file' = file
              /\ Counts(Content(metrics', heap')) = Apply(expected, call[t])
              /\ tpc'[t] = "release"
              /\ lock' = t
        /\ (tpc[t] = "release" /\ tpc'[t] # "release") =>
              /\ tpc'[t] \in {"idle", "second"}
              /\ lock' = 0

\* C15: when opening or writing the temporary file or replacing the
\* canonical file fails, the canonical file is left as it was, the in-memory
\* counters keep the update of the call, and the call goes on to the end of
\* its critical section, where it releases the lock and returns normally; no
\* thread is ever left outside the methods' code and the lock is never held
\* by a thread that is not inside its critical section.
C15_FailureAbsorbed ==
    /\ [](/\ \A t \in Threads : tpc[t] \in {"idle", "second", "acquire"} \cup Critical
          /\ lock # 0 => tpc[lock] \in Critical)
    /\ [][C15_Step]_vars

\* After a save that failed left the canonical file behind the counters, a
\* later track has taken the lock
C15_Witness ==
    \E u \in Threads :
        /\ tpc[u] = "read"
        /\ lock = u
        /\ lastSave = "failed"
        /\ file.exists
        /\ Counts(json_load(file).value) # expected

\* What C17 asks of one step: the value a thread holds from get_metrics is
\* the same after the step as before
C17_Step ==
    \A t \in Threads :
        (snap[t].taken /\ snap'[t] = snap[t]) =>
            Content(snap[t].m, heap') = Content(snap[t].m, heap)

\* C17: no track or reset call that runs after get_metrics returned changes
\* any part of the returned value, its domains histogram included.
C17_Original == [][C17_Step]_vars

\* The histogram and the counter of the value c agree
Consistent(c) == DictSum(c.domains) = c.successful_conversions

\* C20: in every metrics state that can be observed (in memory while no
\* thread is recording anything, in the value get_metrics returned, in the
\* canonical file) the counts of the domains histogram add up to
\* successful_conversions.
C20_Original ==
    /\ (\A t \in Threads : tpc[t] = "idle") => Consistent(Content(metrics, heap))
    /\ file.exists => Consistent(json_load(file).value)
    /\ \A t \in Threads : snap[t].taken => Consistent(Content(snap[t].m, heap))

---------------------------------------------------------------------------
(* Faults inside the handler, checked under SpecFault *)

\* C16: no fault raised by a step of a pipeline run after the rate check
\* escapes the handler: the run is never left by an exception, it ends with
\* one error item handed to the answer.
C16_Original == pc # "raised"

---------------------------------------------------------------------------
(* Properties of the extraction, checked under Spec *)

\* One of the country variants of domain_patterns occurs in u
HasVariant(u) == \E n \in 1..Len(domain_patterns) : SearchLit(u, domain_patterns[n])

\* C18: the domain of the affiliate link is the variant the original query
\* text matches and, when it matches none, the variant of the resolved URL;
\* amazon.it is the default only when neither matches.
C18_Original ==
    (Ended /\ IsSuccessResults(results)) =>
        results[1].link =
            create_affiliate_link(results[1].id,
                                  IF HasVariant(query) THEN extract_domain(query)
                                  ELSE extract_domain(url))

\* x matches [A-Z0-9]{10}
IsAsin(x) ==
    /\ Len(x) = ASIN_LEN
    /\ \A i \in 1..Len(x) : IsUpper(x[i]) \/ IsDigit(x[i])

\* C19: every identifier extract_asin returns, and the asin of every affiliate
\* link of the success path, is ten characters long and made of uppercase
\* letters and digits only.
C19_Original ==
    /\ pc = "match" => (MatchAsin(url) = None \/ IsAsin(MatchAsin(url)))
    /\ (Ended /\ IsSuccessResults(results)) =>
          /\ IsAsin(results[1].id)
          /\ results[1].link = create_affiliate_link(results[1].id,
                                                     extract_domain(query))

---------------------------------------------------------------------------
(* The rate quota along the whole pipeline, checked under Spec *)

\* How many times the timestamp ts occurs in the window w
Count(w, ts) == Cardinality({i \in 1..Len(w) : w[i] = ts})

\* The timestamps that occur in the windows before or after a step
Stamps(u) == Range(user_queries[u]) \cup Range(user_queries'[u]) \cup {now}

\* What C21 asks of one step
C21_Step ==
    /\ \A u \in Users \ {user_id'} : user_queries'[u] = user_queries[u]
    /\ IF pc = "rate_check" /\ pc' # "rate_check"
       THEN /\ admitted' = "admitted" =>
                 /\ Count(user_queries'[user_id], now)
                       = Count(user_queries[user_id], now) + 1
                 /\ user_queries'[user_id][Len(user_queries'[user_id])] = now
                 /\ \A ts \in Stamps(user_id) \ {now} :
                       Count(user_queries'[user_id], ts)
                          <= Count(user_queries[user_id], ts)
            /\ admitted' = "denied" =>
                 \A ts \in Stamps(user_id) :
                    Count(user_queries'[user_id], ts)
                       <= Count(user_queries[user_id], ts)
            /\ Len(Trailing(admissions[user_id], now)) >= MAX_QUERIES_PER_MINUTE
                 => admitted' = "denied"
       ELSE user_queries' = user_queries

\* C21: the rate check of an admitted query appends exactly one timestamp,
\* the instant of the check, to its caller's window; the rate check of a
\* denied query appends none; no other step of any invocation (the start of
\* a run with an empty query, the URL validation, the resolution, the
\* extraction, the answer, whatever the outcome) changes any window, and no
\* step changes the window of another caller; so a caller with
\* MAX_QUERIES_PER_MINUTE admitted queries in the last 60 seconds, valid or
\* not, is denied.
C21_QuotaByAdmission == [][C21_Step]_vars

\* Caller 1, whose ten queries of the last 60 seconds were all invalid, has
\* sent a valid product URL and was denied
C21_Witness ==
    /\ pc = "answer"
    /\ admitted = "denied"
    /\ user_id = 1
    /\ query = Q_dp
    /\ is_valid_amazon_url(query)
    /\ results = RateLimitResults
    /\ now = 0
    /\ Len(user_queries[1]) = MAX_QUERIES_PER_MINUTE
    /\ bot_metrics.successful_conversions = 0
    /\ bot_metrics.failed_extractions = 0

=============================================================================
